---- MODULE Spec2Model ----
(***************************************************************************)
(* Colorizer: text -> RGB colour by nearest reference embedding.           *)
(*                                                                         *)
(*   src/src/main.rs                        the resolver service           *)
(*   src/src/bin/generate_ref_embeddings.rs the offline reference builder  *)
(*                                                                         *)
(* Numbers are Rust f32 values (IEEE-754 binary32, round to nearest even). *)
(* An f32 is the tuple <<sign, exponent field, fraction field>> of its bit *)
(* pattern: sign in 0..1, exponent in 0..255, fraction in 0..2^23-1.       *)
(* All NaN results are the one quiet NaN <<0, 255, 2^22>>.  Intermediate   *)
(* integers stay below 2^31.                                               *)
(***************************************************************************)
EXTENDS Integers, Sequences, FiniteSets, TLC

\* ------------------------------------------------------------------------
\* f32 arithmetic
\* ------------------------------------------------------------------------

F32NaN == <<0, 255, 2^22>>
F32Inf(s) == <<s, 255, 0>>
F32Zero(s) == <<s, 0, 0>>

IsNaN(x) == x[2] = 255 /\ x[3] # 0
IsInf(x) == x[2] = 255 /\ x[3] = 0
IsZero(x) == x[2] = 0 /\ x[3] = 0
IsFinite(x) == x[2] < 255

XorSign(x, y) == (x[1] + y[1]) % 2

\* <<x \div 2^n, whether a 1 bit was shifted out>>, for 0 <= x < 2^31.
ShiftRightSticky(x, n) ==
    IF n >= 31 THEN <<0, x # 0>> ELSE <<x \div (2^n), x % (2^n) # 0>>

\* The k with lo <= x * 2^k < 2 * lo (x > 0, lo a power of two).
NormShift(x, lo) == CHOOSE k \in 0..30 : x * (2^k) >= lo /\ x * (2^k) < 2 * lo

\* A finite non-zero f32 as <<sig, e>>: magnitude sig * 2^e, 2^23 <= sig < 2^24.
Unpack(x) ==
    IF x[2] > 0 THEN <<2^23 + x[3], x[2] - 150>>
    ELSE <<x[3] * (2^NormShift(x[3], 2^23)), (-149) - NormShift(x[3], 2^23)>>

\* The f32 nearest to (-1)^s * (g + t) * 2^e, ties to even, where
\* 2^25 <= g < 2^26 and 0 <= t < 1 with t # 0 iff sticky: overflow gives an
\* infinity, underflow a subnormal or a zero.  The steps, innermost first:
\* pack the rounded significand q1 above the exponent field base;
PackRounded(s, base, q1) ==
    IF base + (q1 \div (2^23)) >= 255 THEN F32Inf(s)
    ELSE <<s, base + (q1 \div (2^23)), q1 % (2^23)>>

\* round q by the bits rem shifted out of it (half is their top bit);
RoundNearestEven(s, base, q, rem, half, sticky) ==
    PackRounded(s, base,
                IF rem > half \/ (rem = half /\ (sticky \/ q % 2 = 1))
                THEN q + 1 ELSE q)

\* drop the low shift bits of g;
RoundAt(s, base, g, sticky, shift) ==
    RoundNearestEven(s, base, g \div (2^shift), g % (2^shift), 2^(shift - 1), sticky)

\* a normal result drops 2 bits, a subnormal one as many more as its
\* exponent lies below the smallest normal exponent.
RoundPack(s, e, g, sticky) ==
    IF e + 152 >= 1 THEN RoundAt(s, e + 151, g, sticky, 2)
    ELSE RoundAt(s, 0, g, sticky, IF (-e) - 149 > 28 THEN 28 ELSE (-e) - 149)

\* x * y, finite non-zero: the 48-bit product of the significands from their
\* 12-bit halves, as hi * 2^24 + lo.
MulNorm(s, e, hi, lo) ==
    IF hi >= 2^23
    THEN RoundPack(s, e + 22, hi * 4 + (lo \div (2^22)), lo % (2^22) # 0)
    ELSE RoundPack(s, e + 21, hi * 8 + (lo \div (2^21)), lo % (2^21) # 0)

MulCarry(s, e, hi0, low) == MulNorm(s, e, hi0 + (low \div (2^24)), low % (2^24))

MulWide(s, e, hh, mid, ll) ==
    MulCarry(s, e, hh + (mid \div 4096), (mid % 4096) * 4096 + ll)

MulParts(s, e, ah, al, bh, bl) == MulWide(s, e, ah * bh, ah * bl + al * bh, al * bl)

MulUnpacked(s, a, b) ==
    MulParts(s, a[2] + b[2], a[1] \div 4096, a[1] % 4096, b[1] \div 4096, b[1] % 4096)

\* x * y
F32Mul(x, y) ==
    IF IsNaN(x) \/ IsNaN(y) THEN F32NaN
    ELSE IF IsInf(x) \/ IsInf(y)
         THEN IF IsZero(x) \/ IsZero(y) THEN F32NaN ELSE F32Inf(XorSign(x, y))
    ELSE IF IsZero(x) \/ IsZero(y) THEN F32Zero(XorSign(x, y))
    ELSE MulUnpacked(XorSign(x, y), Unpack(x), Unpack(y))

\* x + y, finite non-zero.  a is the operand of larger magnitude, A and B
\* the significands with three more bits, B aligned to A with the bits
\* shifted out or-ed into its lowest bit.
AddNorm(s, e, S) ==
    IF S >= 2^27 THEN RoundPack(s, e + 2, S \div 4, S % 4 # 0)
    ELSE RoundPack(s, e + 1, S \div 2, S % 2 # 0)

SubNorm(s, e, S) ==
    IF S = 0 THEN F32Zero(0)
    ELSE IF S >= 2^26 THEN RoundPack(s, e + 1, S \div 2, S % 2 # 0)
    ELSE RoundPack(s, e - NormShift(S, 2^25), S * (2^NormShift(S, 2^25)), FALSE)

AddSigned(sa, sb, e, A, B) ==
    IF sa = sb THEN AddNorm(sa, e, A + B) ELSE SubNorm(sa, e, A - B)

AddJam(sa, sb, e, A, sh) ==
    AddSigned(sa, sb, e, A, IF sh[2] /\ sh[1] % 2 = 0 THEN sh[1] + 1 ELSE sh[1])

AddAligned(sa, a, sb, b) ==
    AddJam(sa, sb, a[2] - 3, a[1] * 8, ShiftRightSticky(b[1] * 8, a[2] - b[2]))

AddUnpacked(sx, ux, sy, uy) ==
    IF ux[2] > uy[2] \/ (ux[2] = uy[2] /\ ux[1] >= uy[1])
    THEN AddAligned(sx, ux, sy, uy)
    ELSE AddAligned(sy, uy, sx, ux)

AddFinite(x, y) == AddUnpacked(x[1], Unpack(x), y[1], Unpack(y))

\* x + y
F32Add(x, y) ==
    IF IsNaN(x) \/ IsNaN(y) THEN F32NaN
    ELSE IF IsInf(x)
         THEN IF IsInf(y) /\ x[1] # y[1] THEN F32NaN ELSE x
    ELSE IF IsInf(y) THEN y
    ELSE IF IsZero(x)
         THEN IF IsZero(y) THEN F32Zero(IF x[1] = 1 /\ y[1] = 1 THEN 1 ELSE 0)
              ELSE y
    ELSE IF IsZero(y) THEN x
    ELSE AddFinite(x, y)

\* x / y, finite non-zero: long division of the significands, 7 bits a step;
\* after n steps from <<a \div d, a % d>> the pair is
\* <<floor(a * 2^(7n) / d), remainder>>.
RECURSIVE DivDigits(_, _, _, _)
DivDigits(d, Q, r, n) ==
    IF n = 0 THEN <<Q, r>>
    ELSE DivDigits(d, Q * 128 + ((r * 128) \div d), (r * 128) % d, n - 1)

DivNorm(s, e, qr) ==
    IF qr[1] >= 2^28
    THEN RoundPack(s, e - 25, qr[1] \div 8, qr[1] % 8 # 0 \/ qr[2] # 0)
    ELSE RoundPack(s, e - 26, qr[1] \div 4, qr[1] % 4 # 0 \/ qr[2] # 0)

DivUnpacked(s, a, b) ==
    DivNorm(s, a[2] - b[2], DivDigits(b[1], a[1] \div b[1], a[1] % b[1], 4))

\* x / y
F32Div(x, y) ==
    IF IsNaN(x) \/ IsNaN(y) THEN F32NaN
    ELSE IF IsInf(x) THEN IF IsInf(y) THEN F32NaN ELSE F32Inf(XorSign(x, y))
    ELSE IF IsInf(y) THEN F32Zero(XorSign(x, y))
    ELSE IF IsZero(y) THEN IF IsZero(x) THEN F32NaN ELSE F32Inf(XorSign(x, y))
    ELSE IF IsZero(x) THEN F32Zero(XorSign(x, y))
    ELSE DivUnpacked(XorSign(x, y), Unpack(x), Unpack(y))

\* Digit-by-digit square root of sig * 2^26 (2^24 <= sig < 2^26): after the
\* pairs of bits i = 25, 24, ..., 0 the result is <<root, remainder>>.
RECURSIVE SqrtDigits(_, _, _, _)
SqrtDigits(sig, i, root, rem) ==
    IF i < 0 THEN <<root, rem>>
    ELSE LET r == rem * 4 + (IF i >= 13 THEN (sig \div (4^(i - 13))) % 4 ELSE 0)
         IN  IF r >= 4 * root + 1
             THEN SqrtDigits(sig, i - 1, 2 * root + 1, r - (4 * root + 1))
             ELSE SqrtDigits(sig, i - 1, 2 * root, r)

SqrtRound(e, d) == RoundPack(0, (e \div 2) - 13, d[1], d[2] # 0)

\* The exponent is made even, the significand taken into [2^24, 2^26).
SqrtUnpacked(a) ==
    IF a[2] % 2 = 1 THEN SqrtRound(a[2] - 1, SqrtDigits(a[1] * 2, 25, 0, 0))
    ELSE SqrtRound(a[2] - 2, SqrtDigits(a[1] * 4, 25, 0, 0))

\* sqrt(x)
F32Sqrt(x) ==
    IF IsNaN(x) THEN F32NaN
    ELSE IF IsZero(x) THEN x
    ELSE IF x[1] = 1 THEN F32NaN
    ELSE IF IsInf(x) THEN x
    ELSE SqrtUnpacked(Unpack(x))

\* Magnitude order of two non-NaN f32 of the same sign class.
MagLess(x, y) == x[2] < y[2] \/ (x[2] = y[2] /\ x[3] < y[3])

\* x > y (false when either is NaN; -0.0 and 0.0 are equal)
F32Gt(x, y) ==
    /\ ~IsNaN(x)
    /\ ~IsNaN(y)
    /\ ~(IsZero(x) /\ IsZero(y))
    /\ IF x[1] # y[1] THEN x[1] = 0
       ELSE IF x[1] = 0 THEN MagLess(y, x) ELSE MagLess(x, y)

\* x == y (false when either is NaN; -0.0 and 0.0 are equal)
F32Eq(x, y) ==
    /\ ~IsNaN(x)
    /\ ~IsNaN(y)
    /\ (x = y \/ (IsZero(x) /\ IsZero(y)))

\* n as f32, for 0 <= n < 2^24 (exact).
F32FromNat(n) ==
    IF n = 0 THEN F32Zero(0)
    ELSE <<0, 150 - NormShift(n, 2^23), n * (2^NormShift(n, 2^23)) - 2^23>>

\* i as f32, for -2^24 < i < 2^24 (exact).
F32FromInt(i) == IF i < 0 THEN <<1, F32FromNat(-i)[2], F32FromNat(-i)[3]>>
                 ELSE F32FromNat(i)

\* f32::MIN, the most negative finite f32.
F32Min == <<1, 254, 2^23 - 1>>

\* ------------------------------------------------------------------------
\* Bounds of the model
\* ------------------------------------------------------------------------

\* Dimensionality D of the Embedding Provider's token vectors.
Dim == 2
\* Most token vectors one provider call yields.
MaxTokens == 2
\* Most entries of a persisted Reference Store.
MaxEntries == 2
\* Number of POST /color requests in flight in the service specification.
MaxRequests == 2
\* Number of vocabulary words the reference builder embeds.
VocabLen == 3
\* Longest vector handed to cosine_similarity in the kernel specification.
MaxLen == 2

\* ------------------------------------------------------------------------
\* Pure functions of src/src/main.rs
\* ------------------------------------------------------------------------

Min(m, n) == IF m < n THEN m ELSE n

\* Iterator::sum::<f32>(): a left fold with +, from the additive identity
\* of f32 (-0.0), in iteration order.
RECURSIVE FoldSum(_, _, _)
FoldSum(acc, s, i) ==
    IF i > Len(s) THEN acc ELSE FoldSum(F32Add(acc, s[i]), s, i + 1)

SumF32(s) == FoldSum(F32Zero(1), s, 1)

\* a.iter().zip(b).map(|(x, y)| x * y): zip stops at the shorter operand.
Products(a, b) == [i \in 1..Min(Len(a), Len(b)) |-> F32Mul(a[i], b[i])]

\* a.iter().map(|x| x * x)
Squares(a) == [i \in 1..Len(a) |-> F32Mul(a[i], a[i])]

\* Mutant: only the first norm is tested against zero.
cosine_similarity_OneGuard(a, b) ==
    LET dot == SumF32(Products(a, b))
        norm_a == F32Sqrt(SumF32(Squares(a)))
        norm_b == F32Sqrt(SumF32(Squares(b)))
    IN  IF F32Eq(norm_a, F32Zero(0))
        THEN F32Zero(0)
        ELSE F32Div(dot, F32Mul(norm_a, norm_b))

\* fn cosine_similarity(a: &[f32], b: &[f32]) -> f32
cosine_similarity(a, b) ==
    LET dot == SumF32(Products(a, b))
        norm_a == F32Sqrt(SumF32(Squares(a)))
        norm_b == F32Sqrt(SumF32(Squares(b)))
    IN  IF F32Eq(norm_a, F32Zero(0)) \/ F32Eq(norm_b, F32Zero(0))
        THEN F32Zero(0)
        ELSE F32Div(dot, F32Mul(norm_a, norm_b))

\* The model's output tensor of shape [1, N, D] is [dim |-> D, rows |-> the N
\* token vectors].  sum_axis(Axis(0)) of the [N, D] view: a zero vector of
\* length D to which each token row is added in order.
RECURSIVE SumRows(_, _, _)
SumRows(acc, rows, i) ==
    IF i > Len(rows) THEN acc
    ELSE SumRows([j \in 1..Len(acc) |-> F32Add(acc[j], rows[i][j])], rows, i + 1)

sum_axis(t) == SumRows([j \in 1..t.dim |-> F32Zero(0)], t.rows, 1)

\* let pooled = summed.clone() / summed.len() as f32;
\* summed.len() is the number of elements of the summed vector.
pool(t) ==
    LET summed == sum_axis(t)
    IN  [j \in 1..Len(summed) |-> F32Div(summed[j], F32FromNat(Len(summed)))]

\* The same two lines in the reference builder.
builder_pool(t) ==
    LET summed == sum_axis(t)
    IN  [j \in 1..Len(summed) |-> F32Div(summed[j], F32FromNat(Len(summed)))]

\* What the tokenizer and the ONNX session do with one text: an error of one
\* of the fallible calls, or the output tensor.
ProviderErr(e) == [ok |-> FALSE, err |-> e, tensor |-> [dim |-> 0, rows |-> <<>>]]
ProviderOk(t) == [ok |-> TRUE, err |-> "", tensor |-> t]

\* fn get_embedding(...) -> Result<Vec<f32>, Box<dyn Error>> (resolver)
get_embedding(o) ==
    IF o.ok THEN [ok |-> TRUE, value |-> pool(o.tensor), err |-> ""]
    ELSE [ok |-> FALSE, value |-> <<>>, err |-> o.err]

\* fn get_embedding(...) -> Result<Vec<f32>> (reference builder)
builder_get_embedding(o) ==
    IF o.ok THEN [ok |-> TRUE, value |-> builder_pool(o.tensor), err |-> ""]
    ELSE [ok |-> FALSE, value |-> <<>>, err |-> o.err]

\* struct RefEmbedding { embedding: Vec<f32>, color: (u8, u8, u8) }
RefEmbedding(e, c) == [embedding |-> e, color |-> c]

\* The file custom/ref_embeddings.json: absent, not a JSON array of
\* RefEmbedding records, or a well-formed array.
FileMissing == [kind |-> "missing", entries |-> <<>>]
FileMalformed == [kind |-> "malformed", entries |-> <<>>]
FileOk(es) == [kind |-> "ok", entries |-> es]

\* ------------------------------------------------------------------------
\* State
\* ------------------------------------------------------------------------

VARIABLES
    file,            \* content of custom/ref_embeddings.json
    file0,           \* its content when the process under study started
    artifacts,       \* whether models/tokenizer.json and models/model.onnx load
    port_free,       \* whether 0.0.0.0:8090 can be bound
    provider,        \* the outcomes the loaded tokenizer + model produce
    phase,           \* position of the service's main
    exit,            \* result of the service's main: "running", "err"
    ref_embeddings,  \* AppState.ref_embeddings
    req,             \* the POST /color requests: handler position and locals
    b_pc,            \* position of the reference builder's main
    b_i,             \* 1-based index of the vocabulary word being embedded
    b_ref,           \* the builder's ref_embeddings vector
    b_exit,          \* the builder's main: "running", "ok" or the error returned
    k_in,            \* kernel specification: the arguments of a pure function
    k_out            \* kernel specification: <<function applied, result>>

vars == <<file, file0, artifacts, port_free, provider, phase, exit,
          ref_embeddings, req, b_pc, b_i, b_ref, b_exit, k_in, k_out>>

envVars == <<file, file0, artifacts, port_free, provider>>
serviceVars == <<phase, exit, ref_embeddings, req>>
builderVars == <<b_pc, b_i, b_ref, b_exit>>
kernelVars == <<k_in, k_out>>

\* ------------------------------------------------------------------------
\* The resolver service: main
\* ------------------------------------------------------------------------

\* Tokenizer::from_file(..)?, Environment::builder()..build()?,
\* SessionBuilder::new(..)?.with_model_from_file(..)?
MainLoadModel ==
    /\ phase = "start"
    /\ IF artifacts
       THEN phase' = "model" /\ UNCHANGED exit
       ELSE phase' = "exited" /\ exit' = "err"
    /\ UNCHANGED <<ref_embeddings, req, envVars, builderVars, kernelVars>>

\* let file = File::open("custom/ref_embeddings.json")?;
MainOpenFile ==
    /\ phase = "model"
    /\ IF file.kind = "missing"
       THEN phase' = "exited" /\ exit' = "err"
       ELSE phase' = "opened" /\ UNCHANGED exit
    /\ UNCHANGED <<ref_embeddings, req, envVars, builderVars, kernelVars>>

\* Mutant: a file that does not deserialize is taken as the empty store
\* (unwrap_or_default in place of ?).
MainDeserialize_DefaultOnError ==
    /\ phase = "opened"
    /\ phase' = "loaded"
    /\ ref_embeddings' = file.entries
    /\ UNCHANGED <<exit, req, envVars, builderVars, kernelVars>>

\* let ref_embeddings: Vec<RefEmbedding> = serde_json::from_reader(file)?;
\* and the move into AppState.  No length of any embedding is examined.
MainDeserialize ==
    /\ phase = "opened"
    /\ IF file.kind = "ok"
       THEN phase' = "loaded" /\ ref_embeddings' = file.entries /\ UNCHANGED exit
       ELSE phase' = "exited" /\ exit' = "err" /\ UNCHANGED ref_embeddings
    /\ UNCHANGED <<req, envVars, builderVars, kernelVars>>

\* HttpServer::new(..).bind(("0.0.0.0", 8090))?.run()
MainBind ==
    /\ phase = "loaded"
    /\ IF port_free
       THEN phase' = "serving" /\ UNCHANGED exit
       ELSE phase' = "exited" /\ exit' = "err"
    /\ UNCHANGED <<ref_embeddings, req, envVars, builderVars, kernelVars>>

\* ------------------------------------------------------------------------
\* The resolver service: POST /color
\* ------------------------------------------------------------------------

NoColor == <<>>

\* A request the server has not received yet.
IdleReq ==
    [pc |-> "idle", out |-> ProviderErr(""), sentence_emb |-> <<>>, i |-> 0,
     best_color |-> NoColor, best_sim |-> F32Min,
     status |-> 0, body_json |-> NoColor, body_text |-> ""]

\* Mutant: a provider error is swallowed and answered like an empty match.
ColorEmbed_SwallowError(r) ==
    /\ phase = "serving"
    /\ req[r].pc = "idle"
    /\ \E o \in provider :
         LET got == get_embedding(o) IN
         req' = [req EXCEPT ![r] =
                   IF got.ok
                   THEN [@ EXCEPT !.pc = "scan", !.out = o,
                                  !.sentence_emb = got.value, !.i = 1,
                                  !.best_color = <<0, 0, 0>>,
                                  !.best_sim = F32Min]
                   ELSE [@ EXCEPT !.pc = "done", !.out = o, !.status = 200,
                                  !.body_json = <<0, 0, 0>>]]
    /\ UNCHANGED <<phase, exit, ref_embeddings, envVars, builderVars, kernelVars>>

\* match get_embedding(..) { Ok(sentence_emb) => { let (mut best_color,
\* mut best_sim) = ((0, 0, 0), f32::MIN); ..,
\* Err(e) => HttpResponse::InternalServerError().body(e.to_string()) }
ColorEmbed(r) ==
    /\ phase = "serving"
    /\ req[r].pc = "idle"
    /\ \E o \in provider :
         LET got == get_embedding(o) IN
         req' = [req EXCEPT ![r] =
                   IF got.ok
                   THEN [@ EXCEPT !.pc = "scan", !.out = o,
                                  !.sentence_emb = got.value, !.i = 1,
                                  !.best_color = <<0, 0, 0>>,
                                  !.best_sim = F32Min]
                   ELSE [@ EXCEPT !.pc = "done", !.out = o, !.status = 500,
                                  !.body_text = got.err]]
    /\ UNCHANGED <<phase, exit, ref_embeddings, envVars, builderVars, kernelVars>>

\* s with its element at position i moved to the front.
MoveToFront(s, i) ==
    [n \in 1..Len(s) |-> IF n = 1 THEN s[i] ELSE IF n <= i THEN s[n - 1] ELSE s[n]]

\* Mutant: a better match is also moved to the front of the shared store.
ColorScan_MoveToFront(r) ==
    /\ req[r].pc = "scan"
    /\ req[r].i <= Len(ref_embeddings)
    /\ LET ref_emb == ref_embeddings[req[r].i]
           sim == cosine_similarity(req[r].sentence_emb, ref_emb.embedding)
       IN  /\ req' = [req EXCEPT ![r] =
                        IF F32Gt(sim, @.best_sim)
                        THEN [@ EXCEPT !.i = @ + 1, !.best_sim = sim,
                                       !.best_color = ref_emb.color]
                        ELSE [@ EXCEPT !.i = @ + 1]]
           /\ ref_embeddings' =
                IF F32Gt(sim, req[r].best_sim)
                THEN MoveToFront(ref_embeddings, req[r].i)
                ELSE ref_embeddings
    /\ UNCHANGED <<phase, exit, envVars, builderVars, kernelVars>>

\* One iteration of: for ref_emb in &data.ref_embeddings { let sim = ..;
\* if sim > best_sim { best_sim = sim; best_color = ref_emb.color; } }
ColorScan(r) ==
    /\ req[r].pc = "scan"
    /\ req[r].i <= Len(ref_embeddings)
    /\ LET ref_emb == ref_embeddings[req[r].i]
           sim == cosine_similarity(req[r].sentence_emb, ref_emb.embedding)
       IN  req' = [req EXCEPT ![r] =
                     IF F32Gt(sim, @.best_sim)
                     THEN [@ EXCEPT !.i = @ + 1, !.best_sim = sim,
                                    !.best_color = ref_emb.color]
                     ELSE [@ EXCEPT !.i = @ + 1]]
    /\ UNCHANGED <<phase, exit, ref_embeddings, envVars, builderVars, kernelVars>>

\* Mutant: a scan that matched nothing is answered with an error.
ColorRespond_NoMatchFails(r) ==
    /\ req[r].pc = "scan"
    /\ req[r].i > Len(ref_embeddings)
    /\ req' = [req EXCEPT ![r] =
                 IF req[r].best_sim = F32Min
                 THEN [@ EXCEPT !.pc = "done", !.status = 500,
                                !.body_text = "no reference matched"]
                 ELSE [@ EXCEPT !.pc = "done", !.status = 200,
                                !.body_json = req[r].best_color]]
    /\ UNCHANGED <<phase, exit, ref_embeddings, envVars, builderVars, kernelVars>>

\* HttpResponse::Ok().json(ColorOutput { r: best_color.0, g: .., b: .. })
ColorRespond(r) ==
    /\ req[r].pc = "scan"
    /\ req[r].i > Len(ref_embeddings)
    /\ req' = [req EXCEPT ![r] = [@ EXCEPT !.pc = "done", !.status = 200,
                                            !.body_json = req[r].best_color]]
    /\ UNCHANGED <<phase, exit, ref_embeddings, envVars, builderVars, kernelVars>>

\* The server drops the request's future while the web::Json extractor is
\* still awaited (client gone): the handler body never runs and no response
\* is produced.  The body itself has no await point, so once it has started
\* it runs to its response.
ColorAbandon(r) ==
    /\ phase = "serving"
    /\ req[r].pc = "idle"
    /\ req' = [req EXCEPT ![r] = [@ EXCEPT !.pc = "dropped"]]
    /\ UNCHANGED <<phase, exit, ref_embeddings, envVars, builderVars, kernelVars>>

NextService ==
    \/ MainLoadModel
    \/ MainOpenFile
    \/ MainDeserialize
    \/ MainBind
    \/ \E r \in DOMAIN req : ColorEmbed(r)
    \/ \E r \in DOMAIN req : ColorScan(r)
    \/ \E r \in DOMAIN req : ColorRespond(r)
    \/ \E r \in DOMAIN req : ColorAbandon(r)

\* ------------------------------------------------------------------------
\* The reference builder: main of generate_ref_embeddings.rs
\* ------------------------------------------------------------------------

\* let ref_words = vec![("love", (255, 0, 0)), ("sun", (255, 255, 0)), ..]
ref_words ==
    << <<"love", <<255, 0, 0>> >>,
       <<"sun", <<255, 255, 0>> >>,
       <<"girl", <<255, 110, 240>> >>,
       <<"boy", <<0, 0, 255>> >>,
       <<"happy", <<255, 200, 0>> >>,
       <<"sad", <<0, 0, 255>> >> >>

\* The words the model's builder embeds: the first VocabLen of ref_words.
Vocabulary == SubSeq(ref_words, 1, VocabLen)

\* serde_json::to_writer_pretty(file, &ref_embeddings): a JSON array of the
\* records in order.  A finite f32 is written as the shortest decimal that
\* reads back as the same f32; NaN and the infinities are written as null,
\* which does not read back as a number.
to_writer_pretty(refs) ==
    IF \A n \in 1..Len(refs) :
         \A j \in 1..Len(refs[n].embedding) : IsFinite(refs[n].embedding[j])
    THEN FileOk(refs)
    ELSE FileMalformed

\* Tokenizer::from_file(..), Environment, SessionBuilder, each with ?
BuilderLoadModel ==
    /\ b_pc = "start"
    /\ IF artifacts
       THEN b_pc' = "embedding" /\ b_i' = 1 /\ UNCHANGED b_exit
       ELSE b_pc' = "exited" /\ b_exit' = "Failed to load tokenizer" /\ UNCHANGED b_i
    /\ UNCHANGED <<b_ref, envVars, serviceVars, kernelVars>>

\* Mutant: when a word fails, what was embedded so far is still saved.
BuilderEmbed_WritePartial ==
    /\ b_pc = "embedding"
    /\ b_i <= Len(Vocabulary)
    /\ \E o \in provider :
         LET got == builder_get_embedding(o) IN
         IF got.ok
         THEN /\ b_ref' = Append(b_ref, RefEmbedding(got.value, Vocabulary[b_i][2]))
              /\ b_i' = b_i + 1
              /\ UNCHANGED <<b_pc, b_exit, file>>
         ELSE /\ b_pc' = "exited"
              /\ b_exit' = got.err
              /\ file' = to_writer_pretty(b_ref)
              /\ UNCHANGED <<b_ref, b_i>>
    /\ UNCHANGED <<file0, artifacts, port_free, provider, serviceVars, kernelVars>>

\* One iteration of: for (word, rgb) in ref_words {
\*   let emb = get_embedding(&tokenizer, &session, word)?;
\*   ref_embeddings.push(RefEmbedding { embedding: emb, color: rgb }); }
BuilderEmbed ==
    /\ b_pc = "embedding"
    /\ b_i <= Len(Vocabulary)
    /\ \E o \in provider :
         LET got == builder_get_embedding(o) IN
         IF got.ok
         THEN /\ b_ref' = Append(b_ref, RefEmbedding(got.value, Vocabulary[b_i][2]))
              /\ b_i' = b_i + 1
              /\ UNCHANGED <<b_pc, b_exit>>
         ELSE /\ b_pc' = "exited"
              /\ b_exit' = got.err
              /\ UNCHANGED <<b_ref, b_i>>
    /\ UNCHANGED <<envVars, serviceVars, kernelVars>>

\* let file = File::create("custom/ref_embeddings.json")?; on success the
\* file exists and is empty, which is not a JSON document.
BuilderCreate ==
    /\ b_pc = "embedding"
    /\ b_i > Len(Vocabulary)
    /\ \E created \in BOOLEAN :
         IF created
         THEN b_pc' = "write" /\ file' = FileMalformed /\ UNCHANGED b_exit
         ELSE b_pc' = "exited" /\ b_exit' = "io error: create" /\ UNCHANGED file
    /\ UNCHANGED <<b_i, b_ref, file0, artifacts, port_free, provider,
                   serviceVars, kernelVars>>

\* serde_json::to_writer_pretty(file, &ref_embeddings)?; Ok(())
\* An I/O error part-way leaves a truncated document.
BuilderWrite ==
    /\ b_pc = "write"
    /\ \E written \in BOOLEAN :
         IF written
         THEN file' = to_writer_pretty(b_ref) /\ b_exit' = "ok"
         ELSE file' = FileMalformed /\ b_exit' = "io error: write"
    /\ b_pc' = "exited"
    /\ UNCHANGED <<b_i, b_ref, file0, artifacts, port_free, provider,
                   serviceVars, kernelVars>>

NextBuilder ==
    \/ BuilderLoadModel
    \/ BuilderEmbed
    \/ BuilderCreate
    \/ BuilderWrite

\* ------------------------------------------------------------------------
\* The pure functions applied to arguments (kernel specification)
\* ------------------------------------------------------------------------

KernelCosine ==
    /\ k_out[1] = "none"
    /\ k_in[1] = "cos"
    /\ k_out' = <<"cosine_similarity", cosine_similarity(k_in[2], k_in[3])>>
    /\ UNCHANGED <<k_in, envVars, serviceVars, builderVars>>

KernelPool ==
    /\ k_out[1] = "none"
    /\ k_in[1] = "pool"
    /\ k_out' = <<"pool", pool(k_in[2])>>
    /\ UNCHANGED <<k_in, envVars, serviceVars, builderVars>>

KernelBuilderPool ==
    /\ k_out[1] = "none"
    /\ k_in[1] = "pool"
    /\ k_out' = <<"builder_pool", builder_pool(k_in[2])>>
    /\ UNCHANGED <<k_in, envVars, serviceVars, builderVars>>

NextKernel ==
    \/ KernelCosine
    \/ KernelPool
    \/ KernelBuilderPool

\* ------------------------------------------------------------------------
\* Inputs
\* ------------------------------------------------------------------------

Zero == F32FromInt(0)
NegZero == F32Zero(1)
One == F32FromInt(1)
Two == F32FromInt(2)
NegTwo == F32FromInt(-2)
Three == F32FromInt(3)
\* 0.9, 0.1 and 1e20 as f32
Point9 == <<0, 126, 6710886>>
Point1 == <<0, 123, 5033165>>
Big == <<0, 193, 2980076>>

\* Sequences over S of length lo..hi.
SeqsOf(S, lo, hi) == UNION {[1..n -> S] : n \in lo..hi}

\* Vectors of the provider's dimensionality.
Unit(k, v) == [i \in 1..Dim |-> IF i = k THEN v ELSE Zero]
Const(v) == [i \in 1..Dim |-> v]
Tensor(rows) == [dim |-> Dim, rows |-> rows]

Red == <<255, 0, 0>>
Yellow == <<255, 255, 0>>
Pink == <<255, 110, 240>>
Blue == <<0, 0, 255>>
Amber == <<255, 200, 0>>

\* The two-entry store of the specification's end-to-end scenarios, and one
\* whose first embedding is one component short.
StoreTwo == <<RefEmbedding(Unit(1, One), Red), RefEmbedding(Unit(2, One), Blue)>>
StoreMismatch ==
    <<RefEmbedding([i \in 1..(Dim - 1) |-> One], Red),
      RefEmbedding(Unit(2, One), Blue)>>

ServiceFiles ==
    {FileMissing, FileMalformed, FileOk(<<>>), FileOk(StoreTwo),
     FileOk(StoreMismatch)}

ServiceOutcomes ==
    {ProviderErr("tokenizer error"),
     ProviderOk(Tensor(<<[i \in 1..Dim |-> IF i = 1 THEN Point9 ELSE Point1]>>)),
     ProviderOk(Tensor(<<[i \in 1..Dim |-> IF i = 2 THEN Point9 ELSE Point1]>>))}

EntrySet ==
    {RefEmbedding(Unit(1, One), Red),
     RefEmbedding(Unit(1, Two), Yellow),
     RefEmbedding(Unit(2, One), Blue),
     RefEmbedding(Const(One), Pink),
     RefEmbedding(Unit(1, Big), Amber)}

ResolveFiles == {FileOk(es) : es \in SeqsOf(EntrySet, 0, MaxEntries)}

RowVecs == {Unit(1, One), Unit(2, One), Const(One), Unit(1, Big), Const(Zero)}

ResolveOutcomes ==
    {ProviderErr("tokenizer error"), ProviderErr("inference error")}
    \cup {ProviderOk(Tensor(rows)) : rows \in SeqsOf(RowVecs, 0, MaxTokens)}

BuilderFiles == {FileMissing, FileOk(StoreTwo)}

BuilderOutcomes ==
    {ProviderErr("Tokenizer error: unsupported input"),
     ProviderOk(Tensor(<<Unit(1, One)>>)),
     ProviderOk(Tensor(<<Unit(2, One), Const(One)>>)),
     ProviderOk(Tensor(<<Unit(1, Big), Unit(1, Big), Unit(1, Big), Unit(1, Big)>>))}

KernelVals == {Zero, NegZero, One, NegTwo, Big, F32Inf(0), F32NaN}
KernelVecs == SeqsOf(KernelVals, 0, MaxLen)
PoolVals == {One, Three}
KernelTensors ==
    UNION {{[dim |-> d, rows |-> rows] :
              rows \in SeqsOf([1..d -> PoolVals], 0, MaxTokens)} : d \in 0..Dim}

KernelInputs ==
    {<<"cos", a, b>> : a \in KernelVecs, b \in KernelVecs}
    \cup {<<"pool", t, <<>> >> : t \in KernelTensors}

\* ------------------------------------------------------------------------
\* Specifications
\* ------------------------------------------------------------------------

ServiceOff ==
    phase = "off" /\ exit = "running" /\ ref_embeddings = <<>> /\ req = <<>>
BuilderOff == b_pc = "off" /\ b_i = 0 /\ b_ref = <<>> /\ b_exit = "running"
KernelOff == k_in = <<"none", <<>>, <<>> >> /\ k_out = <<"none", <<>> >>

\* The service with MaxRequests concurrent requests, every startup outcome.
InitService ==
    /\ file \in ServiceFiles
    /\ file0 = file
    /\ artifacts \in BOOLEAN
    /\ port_free \in BOOLEAN
    /\ provider = ServiceOutcomes
    /\ phase = "start"
    /\ exit = "running"
    /\ ref_embeddings = <<>>
    /\ req = [r \in 1..MaxRequests |-> IdleReq]
    /\ BuilderOff
    /\ KernelOff

\* The service with one request, over many stores and provider outputs.
InitResolve ==
    /\ file \in ResolveFiles
    /\ file0 = file
    /\ artifacts = TRUE
    /\ port_free = TRUE
    /\ provider = ResolveOutcomes
    /\ phase = "start"
    /\ exit = "running"
    /\ ref_embeddings = <<>>
    /\ req = [r \in {1} |-> IdleReq]
    /\ BuilderOff
    /\ KernelOff

InitBuilder ==
    /\ file \in BuilderFiles
    /\ file0 = file
    /\ artifacts \in BOOLEAN
    /\ port_free = TRUE
    /\ provider = BuilderOutcomes
    /\ ServiceOff
    /\ b_pc = "start"
    /\ b_i = 0
    /\ b_ref = <<>>
    /\ b_exit = "running"
    /\ KernelOff

InitKernel ==
    /\ file = FileMissing
    /\ file0 = file
    /\ artifacts = TRUE
    /\ port_free = TRUE
    /\ provider = {}
    /\ ServiceOff
    /\ BuilderOff
    /\ k_in \in KernelInputs
    /\ k_out = <<"none", <<>> >>

Init == InitService
Next == NextService

Spec == Init /\ [][Next]_vars
SpecResolve == InitResolve /\ [][NextService]_vars
SpecBuilder == InitBuilder /\ [][NextBuilder]_vars
SpecKernel == InitKernel /\ [][NextKernel]_vars

\* ------------------------------------------------------------------------
\* Properties
\* ------------------------------------------------------------------------

\* Request r has been answered with status 200.
Resolved(r) == req[r].pc = "done" /\ req[r].status = 200

\* The cosine score of request r's query against entry i of the store.
Score(r, i) == cosine_similarity(req[r].sentence_emb, ref_embeddings[i].embedding)

\* Entry i has the highest score for r, and no earlier entry has that score.
FirstHighest(r, i) ==
    /\ \A j \in 1..Len(ref_embeddings) : ~F32Gt(Score(r, j), Score(r, i))
    /\ \A j \in 1..(i - 1) : ~F32Eq(Score(r, j), Score(r, i))

IsColor(c) == Len(c) = 3 /\ \A n \in 1..3 : c[n] \in 0..255

AllZero(v) == \A j \in 1..Len(v) : IsZero(v[j])

\* Some entry of the persisted store has an embedding whose length is not D.
Mismatch ==
    \E i \in 1..Len(file.entries) : Len(file.entries[i].embedding) # Dim

\* The error descriptions get_embedding can return.
EmbedErrors == {o.err : o \in {p \in provider : ~p.ok}}

\* C1: for every query vector and every non-empty Reference Store, a
\* resolved request carries the colour of the entry with the highest cosine
\* score, and of the first such entry in store order when several tie.
C1_BestMatch ==
    \A r \in DOMAIN req :
        (Resolved(r) /\ Len(ref_embeddings) > 0) =>
            \E i \in 1..Len(ref_embeddings) :
                /\ FirstHighest(r, i)
                /\ req[r].body_json = ref_embeddings[i].color

\* Supporting C1: the same, for the requests none of whose scores is NaN.
C1_BestMatchOfNumbers ==
    \A r \in DOMAIN req :
        (/\ Resolved(r)
         /\ Len(ref_embeddings) > 0
         /\ \A j \in 1..Len(ref_embeddings) : ~IsNaN(Score(r, j))) =>
            \E i \in 1..Len(ref_embeddings) :
                /\ FirstHighest(r, i)
                /\ req[r].body_json = ref_embeddings[i].color

\* Supporting C1: a resolved request over a non-empty store of two entries
\* that tie for the highest score, answered with the first one's colour.
C1_TieReached ==
    \E r \in DOMAIN req :
        /\ Resolved(r)
        /\ Len(ref_embeddings) = 2
        /\ F32Eq(Score(r, 1), Score(r, 2))
        /\ ref_embeddings[1].color # ref_embeddings[2].color
        /\ req[r].body_json = ref_embeddings[1].color

\* C2: pooling N >= 1 identical token vectors v returns v exactly, in the
\* resolver and in the reference builder (the element-wise mean over the
\* N tokens).
C2_PoolIdentical ==
    (/\ k_out[1] \in {"pool", "builder_pool"}
     /\ Len(k_in[2].rows) >= 1
     /\ \A n \in 1..Len(k_in[2].rows) : k_in[2].rows[n] = k_in[2].rows[1]) =>
        k_out[2] = k_in[2].rows[1]

\* C3: when the provider yields zero token vectors, the request fails with
\* status 500: no pooled vector is produced and passed on to matching.
C3_EmptyTokensFail ==
    \A r \in DOMAIN req :
        (/\ req[r].pc # "idle"
         /\ req[r].out.ok
         /\ Len(req[r].out.tensor.rows) = 0) =>
            (req[r].pc = "done" /\ req[r].status = 500)

\* C4: with an entry in the persisted store whose embedding length differs
\* from D, no request is ever resolved against that store and no similarity
\* is computed between vectors of different lengths.
C4_MismatchNeverServed ==
    Mismatch =>
        \A r \in DOMAIN req :
            /\ ~Resolved(r)
            /\ (req[r].pc = "scan" /\ req[r].i <= Len(ref_embeddings)) =>
                   Len(req[r].sentence_emb)
                       = Len(ref_embeddings[req[r].i].embedding)

\* C5: a request is handled only while the server is bound, the server is
\* bound only after the store file was opened and deserialized, and with a
\* missing or malformed file main ends with an error before binding, with
\* no request handled.
C5_LoadBeforeServe ==
    /\ (\E r \in DOMAIN req : req[r].pc # "idle") => phase = "serving"
    /\ phase \in {"loaded", "serving"} =>
           (file.kind = "ok" /\ ref_embeddings = file.entries)
    /\ file.kind # "ok" =>
           /\ phase \in {"start", "model", "opened", "exited"}
           /\ (phase = "exited" => exit = "err")
           /\ (file.kind = "missing" => phase # "opened")
           /\ \A r \in DOMAIN req : req[r].pc = "idle"

\* A request was answered by a server that loaded a non-empty store.
C5_Witness ==
    /\ phase = "serving"
    /\ file.kind = "ok"
    /\ Len(ref_embeddings) > 0
    /\ \E r \in DOMAIN req : req[r].pc = "done"

\* C6: when the embedding of a vocabulary word fails, the build ends at
\* that word with every earlier word embedded and no later one, and the
\* output file is as it was before the build started.
C6_FailFast ==
    (b_pc = "exited" /\ b_exit \in EmbedErrors) =>
        /\ file = file0
        /\ b_i \in 1..Len(Vocabulary)
        /\ Len(b_ref) = b_i - 1

\* The build failed at its second word, with an older output file in place.
C6_Witness ==
    /\ b_pc = "exited"
    /\ b_exit \in EmbedErrors
    /\ b_i = 2
    /\ Len(b_ref) = 1
    /\ file.kind = "ok"

\* C7: while the service runs, the shared store is the sequence loaded at
\* startup, same entries in the same order, whatever the requests do
\* (resolve, fail, or get abandoned).
C7_StoreImmutable ==
    phase = "serving" => (ref_embeddings = file0.entries /\ file = file0)

\* One request in the middle of its scan of a two-entry store, having
\* matched the first entry, while another request has failed.
C7_Witness ==
    /\ phase = "serving"
    /\ Len(ref_embeddings) = 2
    /\ \E r1 \in DOMAIN req, r2 \in DOMAIN req :
           /\ req[r1].pc = "scan"
           /\ req[r1].i = 2
           /\ req[r1].best_color # <<0, 0, 0>>
           /\ req[r2].pc = "done"
           /\ req[r2].status = 500

\* Supporting C7: a request abandoned before its handler ran, beside a
\* request resolved over the two-entry store.
C7_AbandonedReached ==
    /\ phase = "serving"
    /\ Len(ref_embeddings) = 2
    /\ \E r1 \in DOMAIN req, r2 \in DOMAIN req :
           /\ req[r1].pc = "dropped"
           /\ req[r1].sentence_emb = <<>>
           /\ Resolved(r2)

\* C8: an answered request has status 500 and the error's text when the
\* provider failed, status 200 and a colour otherwise; after a failure the
\* service still runs and still takes the requests not yet received.
C8_ErrorResponse ==
    /\ \A r \in DOMAIN req :
           req[r].pc = "done" =>
               IF req[r].out.ok
               THEN /\ req[r].status = 200
                    /\ IsColor(req[r].body_json)
                    /\ req[r].body_text = ""
               ELSE /\ req[r].status = 500
                    /\ req[r].body_text = req[r].out.err
                    /\ req[r].body_text # ""
                    /\ req[r].body_json = NoColor
    /\ (\E r \in DOMAIN req : req[r].status = 500) =>
           /\ phase = "serving"
           /\ exit = "running"
           /\ \A r \in DOMAIN req : req[r].pc = "idle" => ENABLED ColorEmbed(r)

\* One request answered 500 with the error's text, another answered 200.
C8_Witness ==
    \E r1 \in DOMAIN req, r2 \in DOMAIN req :
        /\ req[r1].pc = "done"
        /\ req[r1].status = 500
        /\ req[r1].body_text = "tokenizer error"
        /\ Resolved(r2)
        /\ IsColor(req[r2].body_json)

\* C9: cosine_similarity(a, b) is exactly 0.0 whenever a or b is all zero,
\* whatever the other argument is.
C9_ZeroVector ==
    (/\ k_out[1] = "cosine_similarity"
     /\ (AllZero(k_in[2]) \/ AllZero(k_in[3]))) =>
        k_out[2] = F32Zero(0)

\* A zero vector against a vector holding a NaN: the result is 0.0.
C9_Witness ==
    /\ k_out[1] = "cosine_similarity"
    /\ Len(k_in[3]) >= 1
    /\ AllZero(k_in[3])
    /\ \E j \in 1..Len(k_in[2]) : IsNaN(k_in[2][j])
    /\ k_out[2] = F32Zero(0)

\* C10: with an empty store loaded, a request whose embedding succeeded is
\* answered 200 with the colour (0, 0, 0), and nothing else can happen to
\* it.
C10_EmptyStoreBlack ==
    \A r \in DOMAIN req :
        (/\ file.kind = "ok"
         /\ Len(file.entries) = 0
         /\ req[r].out.ok) =>
            /\ req[r].pc \in {"scan", "done"}
            /\ req[r].best_color = <<0, 0, 0>>
            /\ (req[r].pc = "scan" => ENABLED ColorRespond(r))
            /\ (req[r].pc = "done" =>
                    (req[r].status = 200 /\ req[r].body_json = <<0, 0, 0>>))

\* A request with a pooled vector of D components answered 200 (0, 0, 0)
\* by a service whose store is empty.
C10_Witness ==
    /\ file.kind = "ok"
    /\ Len(ref_embeddings) = 0
    /\ \E r \in DOMAIN req :
           /\ Resolved(r)
           /\ Len(req[r].out.tensor.rows) >= 1
           /\ Len(req[r].sentence_emb) = Dim
           /\ req[r].body_json = <<0, 0, 0>>
====
